---------------------------- MODULE Spec2Model ----------------------------
(***************************************************************************)
(* A model of waterfall/interface.py: the Waterfall pipeline builder, its  *)
(* recursive fan-out/flatten executor, the per-instance value store and    *)
(* the PickleFall / LocalFall callable codecs and snapshots.               *)
(*                                                                         *)
(* The source is Python 2 (it names `unicode` in pipe()); the model        *)
(* follows Python 2 semantics.  Python values are modelled as strings:     *)
(* "None" is None, "0", "1", "2" are ordinary values ("0" is falsy but not *)
(* None), "obj" is a value with no JSON representation.  A dict is a total *)
(* function whose absent keys map to Missing.                              *)
(***************************************************************************)
EXTENDS Naturals, Sequences, FiniteSets, TLC

VARIABLES
    cls,      \* instance -> class name ("Waterfall", "PickleFall", "LocalFall")
    config,   \* instance -> self._config (the pickledir, or NoDir)
    pipes,    \* instance -> self._pipes, the ordered list of stage specs
    values,   \* instance -> self._values, the name -> value dict
    fs,       \* the file system: the set of files, each [path, content]
    ran,      \* the instances run() has been called on before
    snap,     \* the last document to_json() returned, as the caller holds it
    ret       \* what the last call returned or raised, with its trace

vars == <<cls, config, pipes, values, fs, ran, snap, ret>>

---------------------------------------------------------------------------
(* Bounds *)

\* total number of stages appended over all instances (Spec)
MaxPipes == 3

\* number of stages appended to the one pipeline of SpecStore
MaxStorePipes == 4

\* total number of stages appended by pipe() in SpecCodec
MaxCodecPipes == 3

\* number of stages appended to the snapshotted pipeline of SpecSnap
MaxSnapPipes == 2

\* number of stages appended to the snapshotted pipeline of SpecRestore
MaxRestorePipes == 2

\* number of stages appended to the one pipeline of SpecArgs
MaxArgPipes == 3

---------------------------------------------------------------------------
(* Values, names, instances *)

None == "None"
Missing == "Missing"

Val == {"0", "1", "2", "obj"}

\* the names save() and retrieve use
Names == {"x", "y"}

\* the pipeline objects: "top" may nest "sub"; "copy" is the pipeline that
\* from_json() makes
Insts == {"top", "sub", "copy"}

\* the initial values run() is called with
InitVals == {None, "1"}

EmptyDict == [n \in Names |-> Missing]

---------------------------------------------------------------------------
(* Paths and files: os.path.join, open *)

NoDir == [abs |-> FALSE, parts |-> <<"<none>">>]

\* an absolute and a relative pickledir; both directories exist
AbsDir == [abs |-> TRUE, parts |-> <<"data", "pickles">>]
RelDir == [abs |-> FALSE, parts |-> <<"pickles">>]

\* os.path.join(a, b): an absolute b discards a
Join(a, b) == IF b.abs THEN b ELSE [abs |-> a.abs, parts |-> a.parts \o b.parts]

Exists(files, p) == \E f \in files : f.path = p

ReadFile(files, p) == (CHOOSE f \in files : f.path = p).content

\* faulty variant: the file is opened for appending ('ab+')
WriteFile_Append(files, p, content) ==
    {f \in files : f.path # p}
    \cup {[path |-> p,
           content |-> IF Exists(files, p) THEN ReadFile(files, p) \o content
                       ELSE content]}

\* open(p, 'wb+') followed by write(content): truncates and rewrites
WriteFile(files, p, content) ==
    {f \in files : f.path # p} \cup {[path |-> p, content |-> content]}

---------------------------------------------------------------------------
(* Stage callables.  They are user code; the model fixes a few producers   *)
(* in the style of the docstring's examples.  Each accepts any positional  *)
(* and keyword arguments.                                                  *)

Callables == {"gen", "nil", "inc", "incx", "anon", "long", "non"}

Succ(v) == CASE v = "0" -> "1" [] v = "1" -> "2" [] OTHER -> "0"

\* func(*args, **kwargs): the sequence of values the producer yields
Produce(f, args, kwargs) ==
    CASE f = "gen"  -> <<"1", "2">>
      [] f = "nil"  -> <<>>
      [] f = "inc"  -> IF args = <<>> THEN <<"0">> ELSE <<Succ(args[1])>>
      [] f = "incx" -> <<IF kwargs["x"] = Missing THEN "0" ELSE Succ(kwargs["x"])>>
      [] f = "anon" -> <<"2">>
      [] f = "long" -> <<"1">>
      [] f = "non"  -> <<None>>
      [] OTHER      -> <<>>

\* val.__name__ exists (a functools.partial or callable instance has none)
HasName(f) == f # "anon"

\* open() of <name>_<digest> succeeds (it fails with IOError when the name
\* makes the basename longer than the file system allows)
NameWritable(f) == f # "long"

---------------------------------------------------------------------------
(* The codecs: dump and load of the three classes *)

\* dill.dumps / dill.loads: an opaque, faithful serializer
Pickled(f) == <<"pkl", f>>
Unpickle(b) == b[2]

\* hashlib.sha256(pickled).hexdigest(): injective on the modelled contents
Digest(b) == "sha_" \o b[2]

NoPath == [abs |-> FALSE, parts |-> <<>>]
NoBlob == <<"none", "none">>

RefToken(f) == [kind |-> "ref", f |-> f, blob |-> NoBlob, path |-> NoPath]
BlobToken(b) == [kind |-> "blob", f |-> "", blob |-> b, path |-> NoPath]
PathToken(p) == [kind |-> "path", f |-> "", blob |-> NoBlob, path |-> p]

FileName(name) == [abs |-> FALSE, parts |-> <<name>>]

\* LocalFall.dump: name-based file, falling back to the digest on IOError
LocalDump(i, f, files) ==
    LET pickled == Pickled(f)
        digest  == Digest(pickled)
        named   == Join(config[i], FileName(f \o "_" \o digest))
        plain   == Join(config[i], FileName(digest))
    IN  IF ~HasName(f)
        THEN [err |-> "AttributeError", token |-> RefToken(""), fs |-> files]
        ELSE IF NameWritable(f)
        THEN [err |-> "ok", token |-> PathToken(named),
              fs |-> WriteFile(files, named, pickled)]
        ELSE [err |-> "ok", token |-> PathToken(plain),
              fs |-> WriteFile(files, plain, pickled)]

\* self.dump(val) of the instance's class
Dump(i, f, files) ==
    CASE cls[i] = "Waterfall"  -> [err |-> "ok", token |-> RefToken(f), fs |-> files]
      [] cls[i] = "PickleFall" -> [err |-> "ok", token |-> BlobToken(Pickled(f)), fs |-> files]
      [] OTHER                 -> LocalDump(i, f, files)

\* LocalFall.load: open(os.path.join(pickledir, val), 'rb'), pickle.load
LocalLoad(i, tok, files) ==
    LET p == Join(config[i], tok.path)
    IN  IF Exists(files, p)
        THEN [err |-> "ok", f |-> Unpickle(ReadFile(files, p))]
        ELSE [err |-> "IOError", f |-> ""]

\* self.load(val) of the instance's class
Load(i, tok, files) ==
    CASE cls[i] = "Waterfall"  -> [err |-> "ok", f |-> tok.f]
      [] cls[i] = "PickleFall" -> [err |-> "ok", f |-> Unpickle(tok.blob)]
      [] OTHER                 -> LocalLoad(i, tok, files)

---------------------------------------------------------------------------
(* Stage specs *)

\* the `retrieve` keyword as the caller gave it
NoRetrieve == [kind |-> "absent", names |-> <<>>]
StrRetrieve(n) == [kind |-> "str", names |-> <<n>>]
ListRetrieve(ns) == [kind |-> "list", names |-> ns]

\* pipe(): retrieve normalised to a list (None -> [], a string -> [string])
NormRetrieve(r) == r.names

\* {'type': 'func', 'retrieve': ..., 'contents': [token, args, kwargs]};
\* kwargs is the caller's dict, which still holds its 'retrieve' entry
\* (kwRetrieve) beside the ordinary keys (kwargs); args is a tuple
FuncSpec(tok, args, kwargs, r) ==
    [type |-> "func", retrieve |-> NormRetrieve(r), token |-> tok,
     args |-> args, argsKind |-> "tuple", kwargs |-> kwargs, kwRetrieve |-> r]

SaveSpec(n) == [type |-> "save", contents |-> n]

NestSpec(j) == [type |-> "nest", contents |-> j]

---------------------------------------------------------------------------
(* The executor.  A world w holds what a run can change: the stage lists   *)
(* (a func stage's kwargs dict is updated in place), the stores, and the   *)
(* trace of what happened.  Every operator returns [w, out, err]: the      *)
(* world afterwards, the values the generator yields, and "ok" or the      *)
(* exception that ended the run.  A stage is named by its instance and its *)
(* index: pipes[1:] is a new list of the same spec objects.                *)

Event(ev, i, k, prev, path, args, kwargs, kwr, before, after) ==
    [ev |-> ev, inst |-> i, idx |-> k, prev |-> prev, path |-> path,
     args |-> args, kwargs |-> kwargs, kwRetrieve |-> kwr,
     before |-> before, after |-> after]

Logged(w, e) == [w EXCEPT !.log = Append(@, e)]

Raise(w, e) == [w |-> w, out |-> <<>>, err |-> e]

\* kwargs.update({k: self._values[k] for k in spec['retrieve']})
UpdateKwargs(kwargs, retrieve, store) ==
    [n \in Names |->
        IF \E j \in 1..Len(retrieve) : retrieve[j] = n THEN store[n] ELSE kwargs[n]]

\* faulty variant: a lookup that never fails (dict.get)
MissingKey_Never(retrieve, store) == FALSE

\* self._values[k] raises KeyError for some k in spec['retrieve']
MissingKey(retrieve, store) ==
    \E j \in 1..Len(retrieve) : store[retrieve[j]] = Missing

\* faulty variant: `if prev:`, which drops a falsy previous value
BuildArgs_Truthy(prev, args) ==
    IF prev \notin {None, "0"} THEN <<prev>> \o args ELSE args

\* if prev is not None: args = tuple([prev] + list(args))
BuildArgs(prev, args) == IF prev # None THEN <<prev>> \o args ELSE args

\* faulty variant: the store is replaced by a dict holding the one entry
StoreValue_Clobber(store, name, prev) == [EmptyDict EXCEPT ![name] = prev]

\* self._values[spec['contents']] = prev
StoreValue(store, name, prev) == [store EXCEPT ![name] = prev]

RECURSIVE HandleSegment(_, _, _, _, _)
RECURSIVE Drain(_, _, _, _, _, _)

\* faulty variant: the loop ends after the first produced value's branch
Drain_FirstOnly(i, k, vals, n, path, w) ==
    IF n > Len(vals) THEN [w |-> w, out |-> <<>>, err |-> "ok"]
    ELSE LET p  == Append(path, n)
             w1 == Logged(w, Event("yield", i, k, vals[n], p, <<>>, EmptyDict,
                                   NoRetrieve, w.values[i], w.values[i]))
         IN  HandleSegment(i, k + 1, vals[n], p, w1)

\* faulty variant: the producer is materialized (list(func(...))) before
\* the first produced value is handed downstream
RECURSIVE LogYields(_, _, _, _, _, _)
LogYields(i, k, vals, n, path, w) ==
    IF n > Len(vals) THEN w
    ELSE LogYields(i, k, vals, n + 1, path,
                   Logged(w, Event("yield", i, k, vals[n], Append(path, n), <<>>,
                                   EmptyDict, NoRetrieve, w.values[i], w.values[i])))

RECURSIVE Drain_Eager(_, _, _, _, _, _)
Drain_Eager(i, k, vals, n, path, w) ==
    IF n > Len(vals) THEN [w |-> w, out |-> <<>>, err |-> "ok"]
    ELSE LET w1 == IF n = 1 THEN LogYields(i, k, vals, 1, path, w) ELSE w
             r  == HandleSegment(i, k + 1, vals[n], Append(path, n), w1)
         IN  IF r.err # "ok" THEN r
             ELSE LET r2 == Drain_Eager(i, k, vals, n + 1, path, r.w)
                  IN  [w |-> r2.w, out |-> r.out \o r2.out, err |-> r2.err]

\* the loop of _run_func_segment: for retval in func(...): for r in
\* self._handle_segment(remaining_pipes, retval): yield r
Drain(i, k, vals, n, path, w) ==
    IF n > Len(vals) THEN [w |-> w, out |-> <<>>, err |-> "ok"]
    ELSE LET p  == Append(path, n)
             w1 == Logged(w, Event("yield", i, k, vals[n], p, <<>>, EmptyDict,
                                   NoRetrieve, w.values[i], w.values[i]))
             r  == HandleSegment(i, k + 1, vals[n], p, w1)
         IN  IF r.err # "ok" THEN r
             ELSE LET r2 == Drain(i, k, vals, n + 1, path, r.w)
                  IN  [w |-> r2.w, out |-> r.out \o r2.out, err |-> r2.err]

\* faulty variant: the callable is called with the keyword arguments as
\* they were before this call's update
RunFuncSegment_StaleKwargs(i, k, prev, path, w) ==
    LET spec == w.pipes[i][k]
        w0   == Logged(w, Event("enter", i, k, prev, path, <<>>, EmptyDict,
                                NoRetrieve, w.values[i], w.values[i]))
        ld   == Load(i, spec.token, fs)
    IN  IF ld.err # "ok" THEN Raise(w0, ld.err)
        ELSE IF MissingKey(spec.retrieve, w.values[i])
        THEN Raise(w0, "KeyError")
        ELSE LET kwargs == UpdateKwargs(spec.kwargs, spec.retrieve, w.values[i])
                 args   == BuildArgs(prev, spec.args)
                 w1     == [w0 EXCEPT !.pipes[i][k].kwargs = kwargs]
                 w2     == Logged(w1, Event("call", i, k, prev, path, args, spec.kwargs,
                                            spec.kwRetrieve, w.values[i], w.values[i]))
             IN  Drain(i, k, Produce(ld.f, args, spec.kwargs), 1, path, w2)

\* _run_func_segment(spec, remaining_pipes, prev)
RunFuncSegment(i, k, prev, path, w) ==
    LET spec == w.pipes[i][k]
        w0   == Logged(w, Event("enter", i, k, prev, path, <<>>, EmptyDict,
                                NoRetrieve, w.values[i], w.values[i]))
        ld   == Load(i, spec.token, fs)
    IN  IF ld.err # "ok" THEN Raise(w0, ld.err)
        ELSE IF MissingKey(spec.retrieve, w.values[i])
        THEN Raise(w0, "KeyError")
        ELSE LET kwargs == UpdateKwargs(spec.kwargs, spec.retrieve, w.values[i])
                 args   == BuildArgs(prev, spec.args)
                 w1     == [w0 EXCEPT !.pipes[i][k].kwargs = kwargs]
                 w2     == Logged(w1, Event("call", i, k, prev, path, args, kwargs,
                                            spec.kwRetrieve, w.values[i], w.values[i]))
             IN  Drain(i, k, Produce(ld.f, args, kwargs), 1, path, w2)

\* faulty variant: the nested pipeline is run without the previous value
RunNestSegment_NoInit(i, k, prev, path, w) ==
    LET w1 == Logged(w, Event("nest", i, k, prev, path, <<>>, EmptyDict,
                              NoRetrieve, w.values[i], w.values[i]))
    IN  HandleSegment(w.pipes[i][k].contents, 1, None, path, w1)

\* _run_nest_segment(spec, remaining_pipes, prev): the nested pipeline's
\* run(init=prev) is a complete list, whose elements are yielded
RunNestSegment(i, k, prev, path, w) ==
    LET w1 == Logged(w, Event("nest", i, k, prev, path, <<>>, EmptyDict,
                              NoRetrieve, w.values[i], w.values[i]))
    IN  HandleSegment(w.pipes[i][k].contents, 1, prev, path, w1)

\* faulty variant: one store shared by every pipeline object
SaveSegment_Shared(i, k, prev, path, w) ==
    LET name  == w.pipes[i][k].contents
        store == StoreValue(w.values[i], name, prev)
        w1    == [w EXCEPT !.values = [j \in Insts |-> StoreValue(w.values[j], name, prev)]]
        w2    == Logged(w1, Event("save", i, k, prev, path, <<>>, EmptyDict,
                                  NoRetrieve, w.values[i], store))
    IN  HandleSegment(i, k + 1, prev, path, w2)

\* _save_segment(spec, remaining_pipes, prev)
SaveSegment(i, k, prev, path, w) ==
    LET name  == w.pipes[i][k].contents
        store == StoreValue(w.values[i], name, prev)
        w1    == [w EXCEPT !.values[i] = store]
        w2    == Logged(w1, Event("save", i, k, prev, path, <<>>, EmptyDict,
                                  NoRetrieve, w.values[i], store))
    IN  HandleSegment(i, k + 1, prev, path, w2)

\* faulty variant: an exhausted stage list yields nothing
Terminal_Empty(i, k, prev, path, w) == [w |-> w, out |-> <<>>, err |-> "ok"]

\* the else branch of _handle_segment: yield prev
Terminal(i, k, prev, path, w) ==
    [w |-> Logged(w, Event("result", i, k, prev, path, <<>>, EmptyDict,
                           NoRetrieve, w.values[i], w.values[i])),
     out |-> <<prev>>, err |-> "ok"]

\* _handle_segment(pipes, prev) with pipes = self._pipes[k-1:]
HandleSegment(i, k, prev, path, w) ==
    IF k <= Len(w.pipes[i])
    THEN LET type == w.pipes[i][k].type
         IN  CASE type = "func" -> RunFuncSegment(i, k, prev, path, w)
               [] type = "nest" -> RunNestSegment(i, k, prev, path, w)
               [] type = "save" -> SaveSegment(i, k, prev, path, w)
               [] OTHER         -> Raise(w, "UnboundLocalError")
    ELSE Terminal(i, k, prev, path, w)

\* the world a run starts in
World == [pipes |-> pipes, values |-> values, log |-> <<>>]

---------------------------------------------------------------------------
(* What the last call returned.  pre is the world the call started in.     *)

Returned(op, i, init, r, pre) ==
    [op |-> op, inst |-> i, f |-> "", init |-> init, again |-> i \in ran, err |-> r.err,
     out |-> IF r.err = "ok" THEN r.out ELSE <<>>, log |-> r.w.log, pre |-> pre]

NoWorld == [pipes |-> [i \in Insts |-> <<>>],
            values |-> [i \in Insts |-> EmptyDict], log |-> <<>>]

Plain(op, i, f, err) ==
    [op |-> op, inst |-> i, f |-> f, init |-> None, again |-> FALSE, err |-> err,
     out |-> <<>>, log |-> <<>>, pre |-> NoWorld]

---------------------------------------------------------------------------
(* The builder and run *)

\* the stages appended by builder calls
TotalPipes == Len(pipes["top"]) + Len(pipes["sub"])

\* the (func, args, kwargs, retrieve) combinations pipe() is called with
PipeCall(f, r) == [f |-> f, args |-> <<>>, kwargs |-> EmptyDict, retrieve |-> r]

PipeCalls(i) ==
    {PipeCall("gen", NoRetrieve), PipeCall("incx", StrRetrieve("x"))}
    \cup (IF i = "top"
          THEN {PipeCall("nil", NoRetrieve), PipeCall("inc", NoRetrieve)}
          ELSE {})

\* the names save() is called with
SaveNames(i) == IF i = "top" THEN Names ELSE {"x"}

\* pipe(func, *args, **kwargs)
Pipe(i, c, max) ==
    /\ TotalPipes < max
    /\ LET d == Dump(i, c.f, fs)
       IN  /\ fs' = d.fs
           /\ pipes' = IF d.err = "ok"
                       THEN [pipes EXCEPT ![i] =
                                Append(@, FuncSpec(d.token, c.args, c.kwargs, c.retrieve))]
                       ELSE pipes
           /\ ret' = Plain("pipe", i, c.f, d.err)
    /\ UNCHANGED <<cls, config, values, ran, snap>>

\* save(varname)
Save(i, n, max) ==
    /\ TotalPipes < max
    /\ pipes' = [pipes EXCEPT ![i] = Append(@, SaveSpec(n))]
    /\ ret' = Plain("save", i, "", "ok")
    /\ UNCHANGED <<cls, config, values, fs, ran, snap>>

\* nest(nestfunc): only "top" nests, and it nests "sub"
Nest(i, j, max) ==
    /\ TotalPipes < max
    /\ pipes' = [pipes EXCEPT ![i] = Append(@, NestSpec(j))]
    /\ ret' = Plain("nest", i, "", "ok")
    /\ UNCHANGED <<cls, config, values, fs, ran, snap>>

\* run(init): the list comprehension drains the generator.  Callers run
\* "top"; "sub" runs where a nest stage of "top" runs it
Run(i, init) ==
    /\ cls[i] # "None"
    /\ LET r == HandleSegment(i, 1, init, <<>>, World)
       IN  /\ pipes' = r.w.pipes
           /\ values' = r.w.values
           /\ ret' = Returned("run", i, init, r, World)
    /\ ran' = ran \cup {i}
    /\ UNCHANGED <<cls, config, fs, snap>>

\* no snapshot taken yet.  A snapshot holds the document (format, config,
\* pipes; a binary snapshot has no config) and, for reference, the class,
\* configuration and stage list of the pipeline it was taken of
NoSnap == [config |-> NoDir, pipes |-> <<>>, taken |-> FALSE, format |-> "none",
           ofCls |-> "None", ofConfig |-> NoDir, ofPipes |-> <<>>]

\* Waterfall(): __init__ leaves an empty stage list and an empty store
Init ==
    /\ cls = [i \in Insts |-> IF i = "copy" THEN "None" ELSE "Waterfall"]
    /\ config = [i \in Insts |-> NoDir]
    /\ pipes = [i \in Insts |-> <<>>]
    /\ values = [i \in Insts |-> EmptyDict]
    /\ fs = {}
    /\ ran = {}
    /\ snap = NoSnap
    /\ ret = Plain("init", "top", "", "ok")

Next ==
    \/ \E i \in {"top", "sub"} : \E c \in PipeCalls(i) : Pipe(i, c, MaxPipes)
    \/ \E i \in {"top", "sub"} : \E n \in SaveNames(i) : Save(i, n, MaxPipes)
    \/ Nest("top", "sub", MaxPipes)
    \/ \E v \in InitVals : Run("top", v)

Spec == Init /\ [][Next]_vars

---------------------------------------------------------------------------
(* Textual snapshots (LocalFall.to_json / from_json).  json.dumps followed *)
(* by json.loads keeps strings, numbers and None, turns a tuple into a     *)
(* list, and raises TypeError for a value with no JSON representation.     *)

JsonValue(v) == v # "obj"

JsonSpecOk(s) ==
    s.type = "func" =>
        /\ s.token.kind = "path"
        /\ \A j \in 1..Len(s.args) : JsonValue(s.args[j])
        /\ \A n \in Names : JsonValue(s.kwargs[n])

JsonSpec(s) == IF s.type = "func" THEN [s EXCEPT !.argsKind = "list"] ELSE s

\* to_json(): json.dumps({'config': self._config, 'pipes': self._pipes})
ToJson(i) ==
    /\ cls[i] = "LocalFall"
    /\ IF \A k \in 1..Len(pipes[i]) : JsonSpecOk(pipes[i][k])
       THEN /\ snap' = [config |-> config[i],
                        pipes |-> [k \in 1..Len(pipes[i]) |-> JsonSpec(pipes[i][k])],
                        taken |-> TRUE, format |-> "json", ofCls |-> cls[i],
                        ofConfig |-> config[i], ofPipes |-> pipes[i]]
            /\ ret' = Plain("to_json", i, "", "ok")
       ELSE /\ snap' = snap
            /\ ret' = Plain("to_json", i, "", "TypeError")
    /\ UNCHANGED <<cls, config, pipes, values, fs, ran>>

\* from_json(obj) of a document: w = cls(**loaded['config']);
\* w._pipes = loaded['pipes']
FromJsonDoc(doc) ==
    /\ cls' = [cls EXCEPT !["copy"] = "LocalFall"]
    /\ config' = [config EXCEPT !["copy"] = doc.config]
    /\ pipes' = [pipes EXCEPT !["copy"] = doc.pipes]
    /\ values' = [values EXCEPT !["copy"] = EmptyDict]
    /\ ran' = ran \ {"copy"}
    /\ ret' = Plain("from_json", "copy", "", "ok")
    /\ UNCHANGED <<fs, snap>>

\* from_json(obj) of the document to_json() returned
FromJson ==
    /\ snap.taken
    /\ snap.format = "json"
    /\ FromJsonDoc(snap)

\* to_pickle(): pickle.dumps(self._pipes); dill serializes every value
ToPickle(i) ==
    /\ cls[i] \in {"PickleFall", "LocalFall"}
    /\ snap' = [config |-> NoDir, pipes |-> pipes[i], taken |-> TRUE,
                format |-> "pickle", ofCls |-> cls[i],
                ofConfig |-> config[i], ofPipes |-> pipes[i]]
    /\ ret' = Plain("to_pickle", i, "", "ok")
    /\ UNCHANGED <<cls, config, pipes, values, fs, ran>>

\* from_pickle(obj), called on the class c of the snapshotted pipeline:
\* w = cls(); w._pipes = pickle.loads(obj).  LocalFall() lacks the required
\* pickledir argument, so cls() raises TypeError
FromPickle(c) ==
    /\ snap.taken
    /\ snap.format = "pickle"
    /\ c = snap.ofCls
    /\ IF c = "LocalFall"
       THEN /\ ret' = Plain("from_pickle", "copy", "", "TypeError")
            /\ UNCHANGED <<cls, config, pipes, values, ran>>
       ELSE /\ cls' = [cls EXCEPT !["copy"] = c]
            /\ config' = [config EXCEPT !["copy"] = NoDir]
            /\ pipes' = [pipes EXCEPT !["copy"] = snap.pipes]
            /\ values' = [values EXCEPT !["copy"] = EmptyDict]
            /\ ran' = ran \ {"copy"}
            /\ ret' = Plain("from_pickle", "copy", "", "ok")
    /\ UNCHANGED <<fs, snap>>

\* Two pipelines of one class; LocalFall pipelines share one pickledir
InitCodec ==
    /\ \/ \E c \in {"Waterfall", "PickleFall"} :
             /\ cls = [i \in Insts |-> IF i = "copy" THEN "None" ELSE c]
             /\ config = [i \in Insts |-> NoDir]
       \/ \E d \in {AbsDir, RelDir} :
             /\ cls = [i \in Insts |-> IF i = "copy" THEN "None" ELSE "LocalFall"]
             /\ config = [i \in Insts |-> IF i = "copy" THEN NoDir ELSE d]
    /\ pipes = [i \in Insts |-> <<>>]
    /\ values = [i \in Insts |-> EmptyDict]
    /\ fs = {}
    /\ ran = {}
    /\ snap = NoSnap
    /\ ret = Plain("init", "top", "", "ok")

\* callables with a usable name, with a name too long for a file, with none
CodecPipeCalls ==
    {PipeCall(f, NoRetrieve) : f \in {"gen", "inc", "long", "anon"}}

NextCodec ==
    \/ \E i \in {"top", "sub"}, c \in CodecPipeCalls : Pipe(i, c, MaxCodecPipes)
    \/ \E v \in InitVals : Run("top", v)

SpecCodec == InitCodec /\ [][NextCodec]_vars

\* One LocalFall pipeline, snapshotted and restored
InitSnap ==
    /\ \E d \in {AbsDir, RelDir} :
          /\ cls = [i \in Insts |-> IF i = "top" THEN "LocalFall" ELSE "None"]
          /\ config = [i \in Insts |-> IF i = "top" THEN d ELSE NoDir]
    /\ pipes = [i \in Insts |-> <<>>]
    /\ values = [i \in Insts |-> EmptyDict]
    /\ fs = {}
    /\ ran = {}
    /\ snap = NoSnap
    /\ ret = Plain("init", "top", "", "ok")

SnapInitVals == {"1", "obj"}

NextSnap ==
    \/ \E c \in {PipeCall("gen", NoRetrieve), PipeCall("incx", StrRetrieve("x"))} :
          Pipe("top", c, MaxSnapPipes)
    \/ Save("top", "x", MaxSnapPipes)
    \/ \E i \in {"top", "copy"}, v \in SnapInitVals : Run(i, v)
    \/ ToJson("top")
    \/ FromJson

SpecSnap == InitSnap /\ [][NextSnap]_vars

\* One pipeline of up to MaxStorePipes stages built from save("x"), a
\* fan-out and a stage that retrieves "x"
NextStore ==
    \/ \E c \in {PipeCall("gen", NoRetrieve), PipeCall("incx", StrRetrieve("x"))} :
          Pipe("top", c, MaxStorePipes)
    \/ Save("top", "x", MaxStorePipes)
    \/ \E v \in InitVals : Run("top", v)

SpecStore == Init /\ [][NextStore]_vars

\* pipe() calls with declared positional and keyword arguments: a producer
\* of None, inc with one declared argument, incx with a declared keyword
\* and a retrieve name
ArgPipeCalls ==
    {PipeCall("non", NoRetrieve),
     [f |-> "inc", args |-> <<"2">>, kwargs |-> EmptyDict, retrieve |-> NoRetrieve],
     [f |-> "incx", args |-> <<>>, kwargs |-> [EmptyDict EXCEPT !["y"] = "2"],
      retrieve |-> StrRetrieve("x")]}

\* the initial values of SpecArgs: absent, and a falsy value
ArgInitVals == {None, "0"}

\* One pipeline whose stages declare arguments
NextArgs ==
    \/ \E c \in ArgPipeCalls : Pipe("top", c, MaxArgPipes)
    \/ Save("top", "x", MaxArgPipes)
    \/ \E v \in ArgInitVals : Run("top", v)

SpecArgs == Init /\ [][NextArgs]_vars

\* One PickleFall or LocalFall pipeline, snapshotted in either format and
\* restored; a PickleFall may be given a configuration too
InitRestore ==
    /\ \E c \in {"PickleFall", "LocalFall"}, d \in {NoDir, AbsDir} :
          /\ c = "LocalFall" => d = AbsDir
          /\ cls = [i \in Insts |-> IF i = "top" THEN c ELSE "None"]
          /\ config = [i \in Insts |-> IF i = "top" THEN d ELSE NoDir]
    /\ pipes = [i \in Insts |-> <<>>]
    /\ values = [i \in Insts |-> EmptyDict]
    /\ fs = {}
    /\ ran = {}
    /\ snap = NoSnap
    /\ ret = Plain("init", "top", "", "ok")

\* a stage tag _handle_segment does not know
UnknownTag == "each"

\* the document with the tag of record k edited by its holder
Retagged(doc, k) == [doc EXCEPT !.pipes[k].type = UnknownTag]

\* from_json(obj) of an edited document
FromEditedJson(k) ==
    /\ snap.taken
    /\ snap.format = "json"
    /\ k \in 1..Len(snap.pipes)
    /\ FromJsonDoc(Retagged(snap, k))

NextRestore ==
    \/ \E c \in {PipeCall("gen", NoRetrieve), PipeCall("incx", StrRetrieve("x"))} :
          Pipe("top", c, MaxRestorePipes)
    \/ Save("top", "x", MaxRestorePipes)
    \/ ToPickle("top")
    \/ \E c \in {"PickleFall", "LocalFall"} : FromPickle(c)
    \/ ToJson("top")
    \/ FromJson
    \/ \E k \in 1..MaxRestorePipes : FromEditedJson(k)
    \/ \E v \in InitVals : Run("copy", v)

SpecRestore == InitRestore /\ [][NextRestore]_vars

---------------------------------------------------------------------------
(* Properties of the executor (specification Spec)                         *)

RunReturned == ret.op = "run" /\ ret.err = "ok"

\* the stage list and the log of the last run
PrePipes(i) == ret.pre.pipes[i]
LogAt(p) == ret.log[p]
LogIdx == DOMAIN ret.log

IsPrefix(a, b) == Len(a) <= Len(b) /\ SubSeq(b, 1, Len(a)) = a

\* the stage records agree on tag, token, arguments and retrieve names (a
\* textual snapshot turns the args tuple into a list of the same elements)
SameStage(a, b) ==
    /\ a.type = b.type
    /\ IF a.type = "func"
       THEN /\ a.token = b.token
            /\ a.args = b.args
            /\ a.kwargs = b.kwargs
            /\ a.retrieve = b.retrieve
            /\ a.kwRetrieve = b.kwRetrieve
       ELSE a.contents = b.contents

SameStages(ps, qs) ==
    Len(ps) = Len(qs) /\ \A k \in 1..Len(ps) : SameStage(ps[k], qs[k])

\* the concatenation, in order, of the results of executing the stages
\* after k of instance i with each of vals[n..] as the previous value
RECURSIVE FlattenAfter(_, _, _, _, _)
FlattenAfter(i, k, vals, n, w) ==
    IF n > Len(vals) THEN <<>>
    ELSE LET r == HandleSegment(i, k + 1, vals[n], <<n>>, w)
         IN  r.out \o FlattenAfter(i, k, vals, n + 1, r.w)

\* what the first stage of "top", a func stage, produces in the last run
FirstProduced ==
    LET spec == PrePipes("top")[1]
    IN  Produce(spec.token.f, BuildArgs(ret.init, spec.args),
                UpdateKwargs(spec.kwargs, spec.retrieve, ret.pre.values["top"]))

ValueIndependent(spec) == spec.type = "func" /\ spec.token.f \in {"gen", "nil"}
Yields(spec) == Produce(spec.token.f, <<>>, EmptyDict)

\* C1: when the first stage is a func stage, the result of run is the
\* concatenation, in production order, of the results of executing the
\* remaining stages with each produced value (a producer of no value gives
\* the empty list); two chained value-independent producers of M and N
\* values give M*N results, outer-major.
C1_FanOutFlatten ==
    (RunReturned /\ Len(PrePipes("top")) >= 1 /\ PrePipes("top")[1].type = "func")
    => /\ ret.out = FlattenAfter("top", 1, FirstProduced, 1, ret.pre)
       /\ (FirstProduced = <<>> => ret.out = <<>>)
       /\ (/\ Len(PrePipes("top")) = 2
           /\ ValueIndependent(PrePipes("top")[1])
           /\ ValueIndependent(PrePipes("top")[2]))
          => LET outer == Yields(PrePipes("top")[1])
                 inner == Yields(PrePipes("top")[2])
             IN  /\ Len(ret.out) = Len(outer) * Len(inner)
                 /\ \A a \in 1..Len(outer), b \in 1..Len(inner) :
                        ret.out[(a - 1) * Len(inner) + b] = inner[b]

C1_Witness ==
    /\ RunReturned
    /\ Len(PrePipes("top")) = 2
    /\ ValueIndependent(PrePipes("top")[1])
    /\ ValueIndependent(PrePipes("top")[2])
    /\ ret.out = <<"1", "2", "1", "2">>

\* C2: for a nest stage followed by further stages, those stages are
\* executed for each result of the nested pipeline and the results are
\* flattened in order (stated for a nest stage that is the first stage).
C2_NestContinues ==
    (RunReturned /\ Len(PrePipes("top")) >= 1 /\ PrePipes("top")[1].type = "nest")
    => LET nested == HandleSegment("sub", 1, ret.init, <<>>, ret.pre)
       IN  ret.out = FlattenAfter("top", 1, nested.out, 1, nested.w)

SaveName(e) == PrePipes(e.inst)[e.idx].contents

\* C3: a save stage sets the store entry of its name to the previous value,
\* leaves the other entries alone, and continues exactly once into the next
\* stage with the same previous value.
C3_SaveFrame ==
    ret.op = "run" =>
    \A p \in LogIdx :
        LogAt(p).ev = "save" =>
        LET e == LogAt(p)
        IN  /\ e.after[SaveName(e)] = e.prev
            /\ \A n \in Names \ {SaveName(e)} : e.after[n] = e.before[n]
            /\ p + 1 \in LogIdx
            /\ LogAt(p + 1).inst = e.inst
            /\ LogAt(p + 1).idx = e.idx + 1
            /\ LogAt(p + 1).prev = e.prev
            /\ LogAt(p + 1).path = e.path
            /\ LogAt(p + 1).before = e.after
            /\ \A q \in LogIdx :
                   (/\ LogAt(q).inst = e.inst
                    /\ LogAt(q).idx = e.idx + 1
                    /\ LogAt(q).path = e.path
                    /\ LogAt(q).ev \in {"enter", "nest", "save", "result"})
                   => q = p + 1

\* a save that overwrites an entry while another entry is present
C3_Witness ==
    /\ ret.op = "run"
    /\ \E p \in LogIdx :
          /\ LogAt(p).ev = "save"
          /\ LogAt(p).before[SaveName(LogAt(p))] \notin {Missing, LogAt(p).prev}
          /\ \E n \in Names \ {SaveName(LogAt(p))} : LogAt(p).before[n] # Missing

Retrieves(e, n) ==
    \E j \in 1..Len(PrePipes(e.inst)[e.idx].retrieve) :
        PrePipes(e.inst)[e.idx].retrieve[j] = n

SavedBefore(e, n) ==
    \E k \in 1..(e.idx - 1) :
        /\ PrePipes(e.inst)[k].type = "save"
        /\ PrePipes(e.inst)[k].contents = n

\* the executions of save(n) by instance i before log position p
SavesBefore(i, n, p) ==
    {q \in LogIdx : /\ q < p
                    /\ LogAt(q).ev = "save"
                    /\ LogAt(q).inst = i
                    /\ SaveName(LogAt(q)) = n}

\* those among them made by a stage before stage k on the branch of path
BranchSavesBefore(i, n, p, k, path) ==
    {q \in SavesBefore(i, n, p) :
        LogAt(q).idx < k /\ IsPrefix(LogAt(q).path, path)}

Latest(S) == CHOOSE q \in S : \A r \in S : r <= q

\* C4: a func stage that retrieves a name saved by an earlier stage of its
\* list is called with the previous value that reached that save stage on
\* the same depth-first branch, whatever other branches saved before.
C4_RetrieveSameBranchSave ==
    ret.op = "run" =>
    \A p \in LogIdx, n \in Names :
        (LogAt(p).ev = "call" /\ Retrieves(LogAt(p), n) /\ SavedBefore(LogAt(p), n))
        => LET c == LogAt(p)
               S == BranchSavesBefore(c.inst, n, p, c.idx, c.path)
           IN  S # {} /\ c.kwargs[n] = LogAt(Latest(S)).prev

\* C5: run on an empty stage list returns the one-element list holding the
\* initial value (None when no initial value is given).
C5_EmptyPipeline ==
    (ret.op = "run" /\ PrePipes("top") = <<>>)
    => ret.err = "ok" /\ ret.out = <<ret.init>>

C5_Witness ==
    /\ ret.op = "run"
    /\ PrePipes("top") = <<>>
    /\ ret.init = None
    /\ ret.out = <<None>>

\* C6: a pipeline that is one nest stage returns what the nested pipeline's
\* own run returns for the same initial value.
C6_NestAlone ==
    (ret.op = "run" /\ PrePipes("top") = <<NestSpec("sub")>>)
    => LET r == HandleSegment("sub", 1, ret.init, <<>>, ret.pre)
       IN  /\ ret.err = r.err
           /\ r.err = "ok" => ret.out = r.out
           /\ values = r.w.values

C6_Witness ==
    /\ RunReturned
    /\ PrePipes("top") = <<NestSpec("sub")>>
    /\ Len(PrePipes("sub")) = 2
    /\ ret.init = "1"
    /\ ret.out = <<"2">>

\* the name n was saved by instance i in this run before log position p
SavedInRun(i, n, p) == SavesBefore(i, n, p) # {}

\* C7: when a func stage is entered and one of its retrieve names has not
\* been saved so far in the current run, the run raises KeyError (a
\* LookupError): the stage's producer is not called and run returns no
\* list.  This holds on a second or later run as well.
C7_MissingRetrieveFails ==
    ret.op = "run" =>
    \A p \in LogIdx :
        (/\ LogAt(p).ev = "enter"
         /\ \E n \in Names : Retrieves(LogAt(p), n) /\ ~SavedInRun(LogAt(p).inst, n, p))
        => /\ ret.err = "KeyError"
           /\ ret.out = <<>>
           /\ p = Len(ret.log)

C7_Witness ==
    /\ ret.op = "run"
    /\ ret.again
    /\ ret.err = "KeyError"
    /\ ret.pre.values["top"] # EmptyDict

\* what instance i's store holds for n at log position p, going by the
\* save stages of i alone
OwnEntry(i, n, p) ==
    IF SavesBefore(i, n, p) # {}
    THEN LogAt(Latest(SavesBefore(i, n, p))).prev
    ELSE ret.pre.values[i][n]

\* C12: a nested pipeline and its parent share no store entry: at every
\* step, and after the run, each pipeline's store holds what its own save
\* stages wrote, a retrieving stage receives its own pipeline's entry, and
\* a nest stage hands the nested pipeline the previous value and no more.
C12_NestedStoreIndependent ==
    ret.op = "run" =>
    /\ \A p \in LogIdx, n \in Names :
           /\ LogAt(p).before[n] = OwnEntry(LogAt(p).inst, n, p)
           /\ (LogAt(p).ev = "call" /\ Retrieves(LogAt(p), n))
              => LogAt(p).kwargs[n] = OwnEntry(LogAt(p).inst, n, p)
    /\ \A i \in {"top", "sub"}, n \in Names :
           values[i][n] = OwnEntry(i, n, Len(ret.log) + 1)
    /\ \A p \in LogIdx :
           LogAt(p).ev = "nest" =>
           /\ p + 1 \in LogIdx
           /\ LogAt(p + 1).inst = PrePipes(LogAt(p).inst)[LogAt(p).idx].contents
           /\ LogAt(p + 1).idx = 1
           /\ LogAt(p + 1).prev = LogAt(p).prev

\* the parent saved x before the nest stage and the nested pipeline's
\* retrieve of x found nothing
C12_Witness ==
    /\ ret.op = "run"
    /\ ret.err = "KeyError"
    /\ Len(ret.log) >= 3
    /\ LogAt(Len(ret.log)).inst = "sub"
    /\ Retrieves(LogAt(Len(ret.log)), "x")
    /\ SavesBefore("top", "x", Len(ret.log)) # {}
    /\ values["top"]["x"] # Missing
    /\ values["sub"]["x"] = Missing

\* C13: a stage spec is never mutated once appended: every step (builder
\* call or run, with or without retrieve) leaves each stage already in a
\* list with its token, positional arguments, keyword arguments and
\* retrieve names, and a list only grows at its end.
C13_StageSpecImmutable ==
    [][\A i \in {"top", "sub"} :
          /\ Len(pipes'[i]) >= Len(pipes[i])
          /\ \A k \in 1..Len(pipes[i]) : SameStage(pipes'[i][k], pipes[i][k])]_vars

\* C14: the store is scoped to one run: when run is called on a pipeline
\* that was run before (successfully or not), the store it starts with
\* holds no entry.
C14_StorePerRun ==
    (ret.op = "run" /\ ret.again)
    => \A n \in Names : ret.pre.values[ret.inst][n] = Missing

\* the path without its last element
Front(path) == SubSeq(path, 1, Len(path) - 1)

\* log position q holds the value produced next after the one of position
\* p by the same call of the same stage
NextYield(p, q) ==
    /\ LogAt(p).ev = "yield"
    /\ LogAt(q).ev = "yield"
    /\ LogAt(q).inst = LogAt(p).inst
    /\ LogAt(q).idx = LogAt(p).idx
    /\ Front(LogAt(q).path) = Front(LogAt(p).path)
    /\ LogAt(q).path[Len(LogAt(q).path)] = LogAt(p).path[Len(LogAt(p).path)] + 1

\* log position r is a step downstream of the value produced at position p
Downstream(p, r) == r # p /\ IsPrefix(LogAt(p).path, LogAt(r).path)

\* C18: producers are consumed incrementally: right after a func stage's
\* producer hands over its k-th value the next stage is invoked with it,
\* and the producer is asked for its (k+1)-th value only after every step
\* downstream of the k-th value has been made.
C18_IncrementalConsumption ==
    ret.op = "run" =>
    \A p \in LogIdx :
        LogAt(p).ev = "yield" =>
        /\ p + 1 \in LogIdx
        /\ LogAt(p + 1).ev \in {"enter", "nest", "save", "result"}
        /\ LogAt(p + 1).inst = LogAt(p).inst
        /\ LogAt(p + 1).idx = LogAt(p).idx + 1
        /\ LogAt(p + 1).path = LogAt(p).path
        /\ LogAt(p + 1).prev = LogAt(p).prev
        /\ \A q \in LogIdx :
               NextYield(p, q) =>
               /\ p < q
               /\ \A r \in LogIdx : Downstream(p, r) => (p < r /\ r < q)

\* the second value of a fan-out is produced after the steps of a second
\* fan-out downstream of its first value
C18_Witness ==
    /\ RunReturned
    /\ \E p, q, r \in LogIdx :
          /\ NextYield(p, q)
          /\ LogAt(p).path = <<1>>
          /\ LogAt(r).ev = "yield"
          /\ LogAt(r).path = <<1, 2>>
          /\ p < r /\ r < q

\* C19: two successive successful runs of one pipeline with the same
\* initial value return equal lists: after a successful run, running again
\* from the state it left (store and keyword arguments carried over)
\* succeeds with the same list.
C19_RepeatRunEqual ==
    RunReturned =>
    LET r == HandleSegment(ret.inst, 1, ret.init, <<>>, World)
    IN  r.err = "ok" /\ r.out = ret.out

\* a successful run that returned values computed from retrieved entries
\* and left entries in the store and in a stage's keyword arguments
C19_Witness ==
    /\ RunReturned
    /\ ret.out # <<>>
    /\ values[ret.inst]["x"] # Missing
    /\ \E k \in 1..Len(pipes[ret.inst]) :
          /\ pipes[ret.inst][k].type = "func"
          /\ pipes[ret.inst][k].kwargs["x"] # Missing
          /\ pipes[ret.inst][k].kwargs["x"] # values[ret.inst]["x"]

---------------------------------------------------------------------------
(* Properties of the codecs (specification SpecCodec)                      *)

LastToken(i) == pipes[i][Len(pipes[i])].token

\* the argument lists a loaded callable is compared on
ProbeArgs == {<<>>, <<"0">>, <<"1">>}

\* C8: in each of the three classes, for every callable f, load(dump(f)) on
\* the same pipeline succeeds and gives a callable that produces what f
\* produces; for LocalFall with a relative and with an absolute pickledir.
C8_LoadDumpRoundTrip ==
    ret.op = "pipe" =>
        /\ ret.err = "ok"
        /\ LET ld == Load(ret.inst, LastToken(ret.inst), fs)
           IN  /\ ld.err = "ok"
               /\ \A a \in ProbeArgs :
                      Produce(ld.f, a, EmptyDict) = Produce(ret.f, a, EmptyDict)

\* the func stages of the LocalFall pipelines
LocalStages ==
    {s \in UNION {{pipes[i][k] : k \in 1..Len(pipes[i])} : i \in {"top", "sub"}} :
        s.type = "func" /\ s.token.kind = "path"}

\* C9: dumping the same callable content twice, in one LocalFall pipeline
\* or in two sharing the directory, returns the same token and leaves one
\* file for that content, holding the serialized callable.
C9_DumpIdempotent ==
    /\ \A a, b \in fs : a.content = b.content => a = b
    /\ \A a \in fs : \E f \in Callables : a.content = Pickled(f)
    /\ \A s \in LocalStages : Exists(fs, s.token.path)
    /\ \A s, t \in LocalStages :
           ReadFile(fs, s.token.path) = ReadFile(fs, t.token.path) => s.token = t.token
    /\ (ret.op = "pipe" /\ ret.err = "ok" /\ cls[ret.inst] = "LocalFall")
       => ReadFile(fs, LastToken(ret.inst).path) = Pickled(ret.f)

\* the same callable dumped twice by one pipeline and once by the other
C9_Witness ==
    /\ cls["top"] = "LocalFall"
    /\ Len(pipes["top"]) = 2
    /\ Len(pipes["sub"]) = 1
    /\ pipes["top"][1].token = pipes["top"][2].token
    /\ pipes["sub"][1].token = pipes["top"][1].token
    /\ Cardinality(fs) = 1
    /\ ret.op = "pipe"

\* C17: LocalFall.dump of a callable without a name, or whose name-based
\* file cannot be written, does not fail: it writes the serialized bytes to
\* the file named by the digest alone and returns that file's token.
C17_DumpFallback ==
    (/\ ret.op = "pipe"
     /\ cls[ret.inst] = "LocalFall"
     /\ (~HasName(ret.f) \/ ~NameWritable(ret.f)))
    => /\ ret.err = "ok"
       /\ LET plain == Join(config[ret.inst], FileName(Digest(Pickled(ret.f))))
          IN  /\ LastToken(ret.inst) = PathToken(plain)
              /\ Exists(fs, plain)
              /\ ReadFile(fs, plain) = Pickled(ret.f)

---------------------------------------------------------------------------
(* Properties of the snapshots (specification SpecSnap)                    *)

\* C10: for a LocalFall pipeline of pipe and save stages, to_json succeeds
\* before and after runs of the pipeline, and the pipeline from_json makes
\* of the document returns from run(v) what the original's run(v) returns.
C10_JsonRoundTrip ==
    /\ ret.op = "to_json" => ret.err = "ok"
    /\ (ret.op = "run" /\ ret.inst = "copy" /\ Len(pipes["copy"]) = Len(pipes["top"]))
       => LET r == HandleSegment("top", 1, ret.init, <<>>, World)
          IN  r.err = ret.err /\ (r.err = "ok" => r.out = ret.out)

---------------------------------------------------------------------------
(* Properties of restore (specification SpecRestore)                       *)

\* C11: restoring a snapshot, binary (PickleFall, LocalFall) or textual
\* (LocalFall), succeeds and makes a pipeline with the configuration and
\* the ordered stage list of the snapshotted one, loading no callable.
C11_RestoreKeepsDefinition ==
    (\/ ret.op = "from_pickle"
     \/ ret.op = "from_json" /\ pipes["copy"] = snap.pipes)
    => /\ ret.err = "ok"
       /\ cls["copy"] = snap.ofCls
       /\ config["copy"] = snap.ofConfig
       /\ SameStages(pipes["copy"], snap.ofPipes)
       /\ ret.log = <<>>


KnownTags == {"func", "nest", "save"}

\* C16: a run that reaches a stage whose tag is none of func, nest, save
\* (here: the stage is preceded by save stages only, in a pipeline restored
\* from an edited document) fails with ConfigurationError and no other
\* error.
C16_UnknownTagError ==
    ret.op = "run" =>
    \A k \in 1..Len(PrePipes(ret.inst)) :
        (/\ PrePipes(ret.inst)[k].type \notin KnownTags
         /\ \A j \in 1..(k - 1) : PrePipes(ret.inst)[j].type = "save")
        => ret.err = "ConfigurationError"

---------------------------------------------------------------------------
(* Properties of the call a func stage makes (specification SpecArgs)      *)

\* the stage spec of a logged step, as it was when the run started
StageOf(e) == PrePipes(e.inst)[e.idx]

\* C15: the keyword arguments a func stage's callable is called with are
\* the declared keyword arguments merged with one entry per retrieve name
\* holding the stored value, and the retrieve option itself is not among
\* them.
C15_CallKwargs ==
    ret.op = "run" =>
    \A p \in LogIdx :
        LogAt(p).ev = "call" =>
        /\ \A n \in Names :
               LogAt(p).kwargs[n] = IF Retrieves(LogAt(p), n)
                                    THEN LogAt(p).before[n]
                                    ELSE StageOf(LogAt(p)).kwargs[n]
        /\ LogAt(p).kwRetrieve.kind = "absent"

\* C20: the callable receives the previous value as first positional
\* argument exactly when it is not None: after a stage that produced None
\* the next callable gets its declared positional arguments only, and any
\* other previous value, falsy ones included, is prepended.
C20_PrevPrepended ==
    ret.op = "run" =>
    \A p \in LogIdx :
        LogAt(p).ev = "call" =>
        LogAt(p).args = IF LogAt(p).prev = None
                        THEN StageOf(LogAt(p)).args
                        ELSE <<LogAt(p).prev>> \o StageOf(LogAt(p)).args

\* one run in which a falsy initial value is prepended and a None produced
\* by a stage is not
C20_Witness ==
    /\ RunReturned
    /\ \E p \in LogIdx :
          /\ LogAt(p).ev = "call"
          /\ LogAt(p).prev = "0"
          /\ LogAt(p).args = <<"0", "2">>
    /\ \E p \in LogIdx :
          /\ LogAt(p).ev = "call"
          /\ LogAt(p).idx > 1
          /\ LogAt(p).prev = None
          /\ LogAt(p).args = <<"2">>
          /\ LogAt(p - 2).ev = "yield"
          /\ LogAt(p - 2).prev = None


============================================================================
